---- MODULE Spec2Model ----
(***************************************************************************)
(* A model of generate.py: the schema Parser (validation), the Generator   *)
(* (layout planning, bitfield unpacking, emission of the Go declaration    *)
(* and of the Parse<Name> procedure) and the execution of an emitted       *)
(* Parse<Name> procedure on a byte stream.                                 *)
(*                                                                         *)
(* Python strings that the program inspects character by character (type   *)
(* specifiers, names) are sequences of one-character strings.  Emitted Go  *)
(* lines are records holding the values interpolated into the line.        *)
(***************************************************************************)
EXTENDS Integers, Sequences, FiniteSets, TLC

VARIABLES
    input,      \* main: d, the parsed schema document (a list of structures)
    pi,         \* Parser.add: index of the next structure of d to add
    structs,    \* Parser.structs
    perr,       \* the exception that ended Parser.add, or NoExc
    gi,         \* Generator.add_from_parser: index of the next structure
    defs,       \* Generator.defs, one entry per emitted structure
    gerr,       \* the exception that ended Generator.add_from_parser, or NoExc
    run         \* the last execution of an emitted Parse<Name> procedure

vars == <<input, pi, structs, perr, gi, defs, gerr, run>>

(***************************************************************************)
(* Bounds of the model.                                                    *)
(***************************************************************************)
MaxFields == 2      \* fields per structure in the layout documents
MaxOffset == 3      \* largest declared field offset
MaxSubs == 2        \* sub-fields per bitfield (besides the 8/9 one-bit lists)
MaxStream == 8      \* longest byte stream handed to a Parse<Name> procedure
SeqStructs == 2     \* structures per document in the multi-structure documents

(***************************************************************************)
(* Characters and strings.                                                 *)
(***************************************************************************)
Lowers == <<"a","b","c","d","e","f","g","h","i","j","k","l","m",
            "n","o","p","q","r","s","t","u","v","w","x","y","z">>
Uppers == <<"A","B","C","D","E","F","G","H","I","J","K","L","M",
            "N","O","P","Q","R","S","T","U","V","W","X","Y","Z">>
Digits == <<"0","1","2","3","4","5","6","7","8","9">>

IsLower(c) == \E i \in 1..26 : Lowers[i] = c
IsUpper(c) == \E i \in 1..26 : Uppers[i] = c
IsCased(c) == IsLower(c) \/ IsUpper(c)
IsDigit(c) == \E i \in 1..10 : Digits[i] = c
ToUpper(c) == IF IsLower(c) THEN Uppers[CHOOSE i \in 1..26 : Lowers[i] = c] ELSE c
ToLower(c) == IF IsUpper(c) THEN Lowers[CHOOSE i \in 1..26 : Uppers[i] = c] ELSE c

\* int(s) for a string of one decimal digit
DigitVal(c) == (CHOOSE i \in 1..10 : Digits[i] = c) - 1

\* str.title(): a cased character is upper-cased when the character before it
\* is not cased, lower-cased otherwise.
Title(s) ==
    [i \in 1..Len(s) |->
        IF i > 1 /\ IsCased(s[i-1]) THEN ToLower(s[i]) ELSE ToUpper(s[i])]

\* struct.name[0].capitalize() + struct.name[1:]
OutputName(name) == <<ToUpper(name[1])>> \o SubSeq(name, 2, Len(name))

\* Generator.output_field_name
output_field_name(field) == Title(field.name)

\* s.startswith(p)
StartsWith(s, p) == Len(s) >= Len(p) /\ SubSeq(s, 1, Len(p)) = p

\* Python's None where a string is expected, and where a number is expected
None == <<"None">>
NoNum == -1

S_bitfield == <<"b","i","t","f","i","e","l","d">>
S_array == <<"a","r","r","a","y">>
S_uintptr == <<"u","i","n","t","p","t","r">>
S_int == <<"i","n","t">>

\* ty.split('.', 1): the parts around the first '.', or the string itself
Split1(s) ==
    IF \E i \in 1..Len(s) : s[i] = "."
    THEN LET p == CHOOSE i \in 1..Len(s) :
                    s[i] = "." /\ \A j \in 1..(i-1) : s[j] # "."
         IN <<SubSeq(s, 1, p - 1), SubSeq(s, p + 1, Len(s))>>
    ELSE <<s>>

(***************************************************************************)
(* set_bits, and the bit operations of the emitted Go expressions.         *)
(***************************************************************************)
RECURSIVE set_bits_loop(_, _, _, _)
set_bits_loop(i, num, val, ctr) ==
    IF i >= num THEN val
    ELSE set_bits_loop(i + 1, num, val + (IF (val \div ctr) % 2 = 0 THEN ctr ELSE 0),
                       ctr * 2)

\* val |= ctr for ctr = 1, 2, 4, ... num times
set_bits(num) == set_bits_loop(0, num, 0, 1)

RECURSIVE BitAnd(_, _)
BitAnd(a, b) ==
    IF a = 0 \/ b = 0 THEN 0
    ELSE (a % 2) * (b % 2) + 2 * BitAnd(a \div 2, b \div 2)

Shl(a, n) == a * (2 ^ n)
Shr(a, n) == a \div (2 ^ n)

(***************************************************************************)
(* Type names.                                                             *)
(***************************************************************************)
\* _NAME_RE = ^(u)?int(8|16|32|64)$
NameReMatch(name) ==
    LET rest == IF Len(name) > 0 /\ name[1] = "u"
                THEN SubSeq(name, 2, Len(name)) ELSE name
    IN /\ StartsWith(rest, S_int)
       /\ SubSeq(rest, 4, Len(rest)) \in {<<"8">>, <<"1","6">>, <<"3","2">>, <<"6","4">>}

validate_integral_type(name) == name = S_uintptr \/ NameReMatch(name)

\* _ARRAY_RE = (.*?)\[(\d)+\] matched at the start of the string: the prefix
\* lengths p for which '[' , one or more digits and ']' follow.
ArrayReEnds(ty, p) ==
    {k \in 1..Len(ty) :
        /\ p + 2 + k <= Len(ty)
        /\ ty[p + 1] = "["
        /\ \A j \in (p + 2)..(p + 1 + k) : IsDigit(ty[j])
        /\ ty[p + 2 + k] = "]"}

ArrayReStarts(ty) == {p \in 0..Len(ty) : ArrayReEnds(ty, p) # {}}

ArrayReMatches(ty) == ArrayReStarts(ty) # {}

\* match.groups(): the lazy prefix, and the LAST repetition of the group (\d)
ArrayReGroups(ty) ==
    LET p == CHOOSE q \in ArrayReStarts(ty) : \A r \in ArrayReStarts(ty) : q <= r
        k == CHOOSE n \in ArrayReEnds(ty, p) : TRUE
    IN <<SubSeq(ty, 1, p), <<ty[p + 1 + k]>>>>

\* the SIZES dictionary; a name outside its domain is a KeyError
SIZES ==
    (<<"i","n","t","8">> :> 1) @@ (<<"u","i","n","t","8">> :> 1) @@
    (<<"i","n","t","1","6">> :> 2) @@ (<<"u","i","n","t","1","6">> :> 2) @@
    (<<"i","n","t","3","2">> :> 4) @@ (<<"u","i","n","t","3","2">> :> 4) @@
    (<<"i","n","t","6","4">> :> 8) @@ (<<"u","i","n","t","6","4">> :> 8)

(***************************************************************************)
(* Exceptions.  strs and nums are the values interpolated into the message *)
(* (or, for a KeyError, the missing key).                                  *)
(***************************************************************************)
NoExc == [exc |-> "none", fmt |-> "", strs |-> <<>>, nums |-> <<>>]

Raise(kind, fmt, strs, nums) == [exc |-> kind, fmt |-> fmt, strs |-> strs, nums |-> nums]

(***************************************************************************)
(* Parser.                                                                 *)
(***************************************************************************)
\* the Field namedtuple
Field(name, offset, ty, sub_type, bit_fields, array_num, endian) ==
    [name |-> name, offset |-> offset, ty |-> ty, sub_type |-> sub_type,
     bit_fields |-> bit_fields, array_num |-> array_num, endian |-> endian]

\* the BitField namedtuple; x.get('size', 1)
BitField(x) == [name |-> x.name, size |-> IF x.size = NoNum THEN 1 ELSE x.size]

\* Struct(name, fields)
Struct(name, fields) == [name |-> name, fields |-> fields]

\* dict.get(key, default) for the optional 'endian' key
GetEndian(d, default) == IF d.endian = "none" THEN default ELSE d.endian

\* Parser.add_one, lines 160-188: one field dictionary to a Field, or the
\* exception of the tuple unpacking of ty.split('.', 1)
MakeField(field, def_endian) ==
    LET ty0 == field.type
        isbf == StartsWith(ty0, S_bitfield)
        parts == Split1(ty0)
        ty1 == IF isbf THEN parts[1] ELSE ty0
        sub1 == IF isbf THEN parts[2] ELSE None
        bits == IF isbf THEN [i \in 1..Len(field.bit_fields) |->
                                 BitField(field.bit_fields[i])]
                ELSE <<>>
        endian == GetEndian(field, def_endian)
    IN IF isbf /\ Len(parts) # 2
       THEN [exc |-> Raise("ValueError", "need more than 1 value to unpack", <<>>, <<>>),
             field |-> Field(field.name, field.offset, ty0, None, <<>>, NoNum, endian)]
       ELSE IF ArrayReMatches(ty1)
       THEN LET g == ArrayReGroups(ty1)
            IN [exc |-> NoExc,
                field |-> Field(field.name, field.offset, S_array, g[1], bits,
                                DigitVal(g[2][1]), endian)]
       ELSE [exc |-> NoExc,
             field |-> Field(field.name, field.offset, ty1, sub1, bits, NoNum, endian)]

\* Parser._check_field: the storage type that is validated
CheckedType(field) ==
    IF field.ty \in {S_array, S_bitfield} THEN field.sub_type ELSE field.ty

\* Parser._check_field: the message arguments are (name, check), and no
\* variable called name exists in that scope, so building the message raises
\* a NameError before the Exception is constructed.
check_field(field) ==
    IF validate_integral_type(CheckedType(field)) THEN NoExc
    ELSE Raise("NameError", "global name '%s' is not defined",
               <<<<"n","a","m","e">>>>, <<>>)

RECURSIVE SumSizes(_)
SumSizes(bit_fields) ==
    IF bit_fields = <<>> THEN 0
    ELSE Head(bit_fields).size + SumSizes(Tail(bit_fields))

\* a bit budget that must stay below the storage width
check_bitfield_strict(struct_name, field) ==
    IF field.sub_type = S_uintptr
    THEN Raise("Exception", "Bitfields can't be uintptr (field \"%s\" in \"%s\")",
               <<field.name, struct_name>>, <<>>)
    ELSE LET num_bits == SumSizes(field.bit_fields)
             max_bits == SIZES[field.sub_type] * 8
         IN IF num_bits >= max_bits
            THEN Raise("Exception",
                       "Too many bits in field \"%s\" of structure \"%s\" - used: %d, max: %d",
                       <<field.name, struct_name>>, <<num_bits, max_bits>>)
            ELSE NoExc

\* Parser._check_bitfield
check_bitfield(struct_name, field) ==
    IF field.sub_type = S_uintptr
    THEN Raise("Exception", "Bitfields can't be uintptr (field \"%s\" in \"%s\")",
               <<field.name, struct_name>>, <<>>)
    ELSE IF field.sub_type \notin DOMAIN SIZES
    THEN Raise("KeyError", "%s", <<field.sub_type>>, <<>>)
    ELSE LET num_bits == SumSizes(field.bit_fields)
             max_bits == SIZES[field.sub_type] * 8
         IN IF num_bits > max_bits
            THEN Raise("Exception",
                       "Too many bits in field \"%s\" of structure \"%s\" - used: %d, max: %d",
                       <<field.name, struct_name>>, <<num_bits, max_bits>>)
            ELSE NoExc

\* Parser.add_one, lines 190-193: the validation of one Field
ValidateField(s_name, field) ==
    LET e == check_field(field)
    IN IF e # NoExc THEN e
       ELSE IF field.ty = S_bitfield THEN check_bitfield(s_name, field)
       ELSE NoExc

\* Parser.add_one, the loop over struct['fields'] from field i on
RECURSIVE AddFields(_, _, _)
AddFields(struct, i, fields) ==
    IF i > Len(struct.fields) THEN [exc |-> NoExc, fields |-> fields, at |-> 0]
    ELSE LET m == MakeField(struct.fields[i], GetEndian(struct, "little"))
             e == IF m.exc # NoExc THEN m.exc ELSE ValidateField(struct.name, m.field)
         IN IF e # NoExc THEN [exc |-> e, fields |-> fields, at |-> i]
            ELSE AddFields(struct, i + 1, Append(fields, m.field))

\* Parser.add_one as a function of the structure dictionary
add_one(struct) == AddFields(struct, 1, <<>>)

(***************************************************************************)
(* Generator.                                                              *)
(***************************************************************************)
\* lines 275-290: the members one field contributes to the type declaration
Members(field) ==
    IF field.ty = S_bitfield
    THEN [i \in 1..Len(field.bit_fields) |->
             [name |-> output_field_name(field.bit_fields[i]), len |-> NoNum,
              type |-> field.sub_type]]
    ELSE IF field.ty = S_array
    THEN <<[name |-> output_field_name(field), len |-> field.array_num,
            type |-> field.sub_type]>>
    ELSE <<[name |-> output_field_name(field), len |-> NoNum, type |-> field.ty]>>

\* lines 272-292: the type declaration, in the order the fields are given
RECURSIVE Defn(_)
Defn(fields) ==
    IF fields = <<>> THEN <<>> ELSE Members(Head(fields)) \o Defn(Tail(fields))

\* sorted(struct.fields, key=lambda f: f[1]): a stable sort by offset
RECURSIVE InsertByOffset(_, _)
InsertByOffset(f, sorted) ==
    IF sorted = <<>> THEN <<f>>
    ELSE IF f.offset < Head(sorted).offset THEN <<f>> \o sorted
    ELSE <<Head(sorted)>> \o InsertByOffset(f, Tail(sorted))

RECURSIVE SortedByOffset(_)
SortedByOffset(fields) ==
    IF fields = <<>> THEN <<>>
    ELSE InsertByOffset(fields[Len(fields)],
                        SortedByOffset(SubSeq(fields, 1, Len(fields) - 1)))

\* a Generator that walks the fields in the order they are declared
sorted_fields_declared(struct) == struct.fields

\* line 295: s_fields = sorted(struct.fields, ...)
sorted_fields(struct) == SortedByOffset(struct.fields)

\* one emitted line group of the Parse<Name> body
\* (op: "slack", "read" or "assign"; name: the field or sub-field of the
\* comment line; tmp: the K of tempK; n: slack length or sub-field size;
\* dst: the member of output written; type: the type of a temporary; from:
\* last_name of a slack comment; errargs: what err_msg interpolates)
Op(op, name, tmp, n, dst, type, endian, mask, shift, from, errargs) ==
    [op |-> op, name |-> name, tmp |-> tmp, n |-> n, dst |-> dst, type |-> type,
     endian |-> endian, mask |-> mask, shift |-> shift, from |-> from,
     errargs |-> errargs]

\* line 323: the gap between the previous field's end and this field
Diff(field, last_end) == field.offset - last_end

\* line 324: whether a slack read is emitted for the gap
EmitsSlack(diff) == diff # 0

\* lines 325-331: 'var tempK [diff]byte' and the unchecked binary.Read into it
SlackOp(tmp, diff, last_name, field) ==
    Op("slack", field.name, tmp, diff, None, None, "binary.LittleEndian", 0, 0, last_name,
       <<>>)

\* lines 345-348
EndianName(field) ==
    IF field.endian = "big" THEN "binary.BigEndian" ELSE "binary.LittleEndian"

\* lines 333-357: the read of a field, into output.<Member> or into a fresh
\* temporary of the bitfield's storage type, and the check of err.  The
\* message of the returned error interpolates field.name and err.
ReadOp(field, tmp) ==
    IF field.ty = S_bitfield
    THEN Op("read", field.name, tmp, 0, None, field.sub_type, EndianName(field), 0, 0,
            None, <<field.name>>)
    ELSE Op("read", field.name, NoNum, 0, output_field_name(field), None,
            EndianName(field), 0, 0, None, <<field.name>>)

\* a mask that is not moved to the sub-field's bit offset
CurrMask_unshifted(size, offset) == set_bits(size)

\* line 369
CurrMask(size, offset) == Shl(set_bits(size), offset)

\* lines 366-381: output.<Sub> = (tempK & curr_mask) >> offset, per sub-field
RECURSIVE AssignOps(_, _, _, _)
AssignOps(bit_fields, i, offset, tmp) ==
    IF i > Len(bit_fields) THEN <<>>
    ELSE LET sub == bit_fields[i]
         IN <<Op("assign", sub.name, tmp, sub.size, output_field_name(sub), None, "",
                 CurrMask(sub.size, offset), offset, None, <<>>)>>
            \o AssignOps(bit_fields, i + 1, offset + sub.size, tmp)

\* lines 384-391: the key looked up in SIZES for the field's extent
SizeKey(field) ==
    IF field.ty \in {S_bitfield, S_array} THEN field.sub_type ELSE field.ty

\* lines 384-391: the end offset of a field whose SizeKey is in SIZES
EndOf(field) ==
    IF field.ty = S_bitfield THEN field.offset + SIZES[field.sub_type]
    ELSE IF field.ty = S_array
    THEN field.offset + SIZES[field.sub_type] * field.array_num
    ELSE field.offset + SIZES[field.ty]

\* the temporaries Generator.defs already declares
RECURSIVE TempsIn(_)
TempsIn(gen_defs) ==
    IF gen_defs = <<>> THEN 0
    ELSE Cardinality({i \in DOMAIN Head(gen_defs).code :
                         Head(gen_defs).code[i].op = "slack"
                         \/ (Head(gen_defs).code[i].op = "read"
                             /\ Head(gen_defs).code[i].dst = None)})
         + TempsIn(Tail(gen_defs))

\* a counter of temporaries shared by every add_one call of a Generator
TempCtrInit_shared(gen_defs) == TempsIn(gen_defs)

\* line 308: the counter of temporaries add_one starts with; gen_defs is
\* Generator.defs at the time of the call
TempCtrInit(gen_defs) == 0

\* lines 322-393: the loop over s_fields from field i on.  st holds ctr,
\* last_name, last_end and the code emitted so far.
RECURSIVE EmitFields(_, _, _)
EmitFields(s_fields, i, st) ==
    IF i > Len(s_fields) THEN st
    ELSE LET field == s_fields[i]
             diff == Diff(field, st.last_end)
             slack == IF EmitsSlack(diff)
                      THEN <<SlackOp(st.ctr, diff, st.last_name, field)>> ELSE <<>>
             ctr1 == st.ctr + Len(slack)
             isbf == field.ty = S_bitfield
             ctr2 == IF isbf THEN ctr1 + 1 ELSE ctr1
             read == <<ReadOp(field, ctr1)>>
         IN IF SizeKey(field) \notin DOMAIN SIZES
            THEN [st EXCEPT !.exc = Raise("KeyError", "%s", <<SizeKey(field)>>, <<>>)]
            ELSE EmitFields(s_fields, i + 1,
                    [ctr |-> ctr2,
                     last_name |-> field.name,
                     last_end |-> EndOf(field),
                     code |-> st.code \o slack \o read \o
                              (IF isbf THEN AssignOps(field.bit_fields, 1, 0, ctr1)
                               ELSE <<>>),
                     exc |-> NoExc])

\* Generator.add_one as a function of the Struct and of Generator.defs: the
\* lines it appends to Generator.defs, or the exception it raises
GenStruct(struct, gen_defs) ==
    LET st == EmitFields(sorted_fields(struct), 1,
                         [ctr |-> TempCtrInit(gen_defs),
                          last_name |-> <<"*beginning of structure*">>,
                          last_end |-> 0, code |-> <<>>, exc |-> NoExc])
    IN [exc |-> st.exc,
        name |-> OutputName(struct.name),
        defn |-> Defn(struct.fields),
        code |-> st.code,
        total |-> st.last_end]

(***************************************************************************)
(* Execution of an emitted Parse<Name> procedure (Go's encoding/binary).   *)
(***************************************************************************)
\* the index in the type declaration of the member called name
MemberIndex(defn, name) ==
    CHOOSE j \in 1..Len(defn) :
        defn[j].name = name /\ \A k \in 1..(j-1) : defn[k].name # name

\* the number of elements and the element type a read stores into
DstShape(def, op) ==
    IF op.dst = None THEN [len |-> 1, type |-> op.type]
    ELSE LET m == def.defn[MemberIndex(def.defn, op.dst)]
         IN [len |-> IF m.len = NoNum THEN 1 ELSE m.len, type |-> m.type]

\* the number of bytes binary.Read asks the stream for
OpBytes(def, op) ==
    IF op.op = "slack" THEN op.n
    ELSE IF op.op = "read"
    THEN LET sh == DstShape(def, op) IN sh.len * SIZES[sh.type]
    ELSE 0

\* an unsigned integer from its bytes
RECURSIVE FromLittle(_)
FromLittle(bytes) ==
    IF bytes = <<>> THEN 0 ELSE Head(bytes) + 256 * FromLittle(Tail(bytes))

RECURSIVE Reverse(_)
Reverse(q) == IF q = <<>> THEN <<>> ELSE Append(Reverse(Tail(q)), Head(q))

\* one element of the given type decoded from its bytes
DecodeInt(bytes, type, endian) ==
    LET u == IF endian = "binary.BigEndian" THEN FromLittle(Reverse(bytes))
             ELSE FromLittle(bytes)
        bits == 8 * Len(bytes)
    IN IF type[1] = "i" /\ u >= 2 ^ (bits - 1) THEN u - 2 ^ bits ELSE u

\* the elements binary.Read stores for a successful read
DecodeValue(bytes, shape, endian) ==
    LET w == SIZES[shape.type]
    IN [e \in 1..shape.len |->
           DecodeInt(SubSeq(bytes, (e - 1) * w + 1, e * w), shape.type, endian)]

\* a Go array type needs a length that is not negative, so a negative slack
\* declaration does not build
Builds(def) ==
    \A i \in 1..Len(def.code) : def.code[i].op = "slack" => def.code[i].n >= 0

\* the bit pattern of a temporary, as an unsigned number
Raw(temps, tmp) == temps[tmp]

\* (tempK & mask) >> shift
Extract(raw, mask, shift) == Shr(BitAnd(raw, mask), shift)

\* the statements of the body from statement i on.  r holds the stream
\* position, the members of output, the temporaries and the statements run.
RECURSIVE RunOps(_, _, _, _)
RunOps(def, stream, i, r) ==
    IF i > Len(def.code)
    THEN [r EXCEPT !.result = "value"]
    ELSE LET op == def.code[i]
             n == OpBytes(def, op)
             left == Len(stream) - r.pos
             ran == Append(r.ran, i)
         IN IF op.op = "slack"
            THEN \* the result of binary.Read is dropped
                 RunOps(def, stream, i + 1,
                        [r EXCEPT !.pos = IF n <= left THEN r.pos + n ELSE Len(stream),
                                  !.temps = (op.tmp :> 0) @@ r.temps,
                                  !.ran = ran])
            ELSE IF op.op = "read"
            THEN IF n > left
                 THEN [r EXCEPT !.pos = Len(stream), !.ran = ran, !.result = "nil",
                                !.out = <<>>,
                                !.err = [fmt |-> "Error reading field '%s' of structure: %s",
                                         strs |-> op.errargs,
                                         wraps |-> IF left = 0 /\ n > 0 THEN "EOF"
                                                   ELSE "unexpected EOF"]]
                 ELSE LET bytes == SubSeq(stream, r.pos + 1, r.pos + n)
                          v == DecodeValue(bytes, DstShape(def, op), op.endian)
                      IN RunOps(def, stream, i + 1,
                            IF op.dst = None
                            THEN [r EXCEPT !.pos = r.pos + n, !.ran = ran,
                                           !.temps = (op.tmp :> FromLittle(
                                               IF op.endian = "binary.BigEndian"
                                               THEN Reverse(bytes) ELSE bytes))
                                               @@ r.temps]
                            ELSE [r EXCEPT !.pos = r.pos + n, !.ran = ran,
                                           !.out[MemberIndex(def.defn, op.dst)] = v])
            ELSE RunOps(def, stream, i + 1,
                        [r EXCEPT !.ran = ran,
                                  !.out[MemberIndex(def.defn, op.dst)] =
                                      <<Extract(Raw(r.temps, op.tmp), op.mask, op.shift)>>])

NoErr == [fmt |-> "", strs |-> <<>>, wraps |-> ""]

\* Parse<Name>(input): var output, var err, the body, return &output, nil
RunParse(def, stream) ==
    RunOps(def, stream, 1,
           [pos |-> 0, temps |-> <<>>, ran |-> <<>>, result |-> "",
            out |-> [j \in 1..Len(def.defn) |->
                        [e \in 1..(IF def.defn[j].len = NoNum THEN 1 ELSE def.defn[j].len)
                            |-> 0]],
            err |-> NoErr])

(***************************************************************************)
(* Input documents.                                                        *)
(***************************************************************************)
FieldNames == << <<"f","o","o">>, <<"b","a","r","_","x">>, <<"q","2">>,
                 <<"B","a","z">> >>
StructNames == << <<"t","e","s","t","1">>, <<"h","d","r">>, <<"p","k","t">>,
                  <<"x">> >>
SubName(i) == <<"f","l","a","g", Digits[i]>>

T_uint8 == <<"u","i","n","t","8">>
T_int16 == <<"i","n","t","1","6">>
T_int8 == <<"i","n","t","8">>
T_uint88 == <<"u","i","n","t","8","8">>
T_intptr == <<"i","n","t","p","t","r">>
T_arr2 == <<"u","i","n","t","1","6","[","2","]">>
T_arr12 == <<"u","i","n","t","8","[","1","2","]">>
T_arr_ptr == <<"u","i","n","t","p","t","r","[","2","]">>
T_arr_bad == <<"u","i","n","t","[","3","]">>
T_bf_uint8 == S_bitfield \o <<".">> \o T_uint8
T_bf_uint16 == S_bitfield \o <<".">> \o <<"u","i","n","t","1","6">>
T_bf_uintptr == S_bitfield \o <<".">> \o S_uintptr
T_bf_bad == S_bitfield \o <<".">> \o <<"u","i","n","t">>

\* the 'type' strings of the single-field documents
PlainTypes == {T_uint8, T_int16, T_int8, S_uintptr, T_uint88, T_intptr,
               T_arr2, T_arr12, T_arr_ptr, T_arr_bad}
BitfieldTypes == {T_bf_uint8, T_bf_uint16, T_bf_uintptr, T_bf_bad}

\* the 'size' values of a sub-field; NoNum is a sub-field without the key
SubSizes == {NoNum, 0, 2, 5, 8}

\* sub-field lists: every list of up to MaxSubs sub-fields, and the lists of
\* eight and of nine one-bit sub-fields
NamedSubs(sizes) == [i \in 1..Len(sizes) |-> [name |-> SubName(i), size |-> sizes[i]]]
BitLists ==
    {NamedSubs(q) : q \in UNION {[1..k -> SubSizes] : k \in 0..MaxSubs}}
    \cup {NamedSubs([i \in 1..k |-> NoNum]) : k \in {8, 9}}

FieldSpec(i, offset, type, bit_fields, endian) ==
    [name |-> FieldNames[i], offset |-> offset, type |-> type,
     bit_fields |-> bit_fields, endian |-> endian]

StructSpec(i, endian, fields) ==
    [name |-> StructNames[i], endian |-> endian, fields |-> fields]

\* documents of one structure of one field: every type string, every
\* sub-field list, the endianness given or defaulted
TypeDocs ==
    {<<StructSpec(1, se, <<FieldSpec(1, o, t, <<>>, fe)>>)>> :
        se \in {"none", "big"}, fe \in {"none", "little"},
        o \in {0, MaxOffset}, t \in PlainTypes}
    \cup
    {<<StructSpec(1, "none", <<FieldSpec(1, o, t, b, "none")>>)>> :
        o \in {0, MaxOffset}, t \in BitfieldTypes, b \in BitLists}

\* what a field of a layout document is: a type and its sub-fields
LayoutKinds ==
    {<<T_uint8, <<>>>>, <<T_int16, <<>>>>, <<T_arr2, <<>>>>,
     <<T_bf_uint8, NamedSubs(<<NoNum, 2>>)>>}

FieldLists(maxFields, maxOffset, kinds) ==
    {[i \in DOMAIN q |-> FieldSpec(i, q[i][1], q[i][2][1], q[i][2][2], "none")] :
        q \in UNION {[1..k -> (0..maxOffset) \X kinds] : k \in 0..maxFields}}

\* documents of one structure of up to MaxFields fields at any offsets
LayoutDocs ==
    {<<StructSpec(1, "none", fs)>> : fs \in FieldLists(MaxFields, MaxOffset, LayoutKinds)}

SeqKinds == {<<T_uint8, <<>>>>, <<T_bf_uint8, NamedSubs(<<NoNum, 2>>)>>}

\* documents of two to SeqStructs structures, each of at most one field at
\* offset 0 or 1
SeqDocs ==
    {[i \in DOMAIN q |-> StructSpec(i, "none", q[i])] :
        q \in UNION {[1..n -> FieldLists(1, 1, SeqKinds)] : n \in 2..SeqStructs}}

Docs == TypeDocs \cup LayoutDocs \cup SeqDocs

\* byte streams: n bytes counting up from 0xFE (0xFE, 0xFF, 0x00, 0x01, ...)
Streams == {[i \in 1..n |-> (253 + i) % 256] : n \in 0..MaxStream}

(***************************************************************************)
(* The program: main() adds every structure of d to the Parser, then every *)
(* structure of the Parser to the Generator; an emitted Parse<Name> is     *)
(* then run on a stream.                                                   *)
(***************************************************************************)
NoRun == [def |-> 0, stream |-> <<>>, res |-> [result |-> ""]]

Init ==
    /\ input \in Docs
    /\ pi = 1
    /\ structs = <<>>
    /\ perr = NoExc
    /\ gi = 1
    /\ defs = <<>>
    /\ gerr = NoExc
    /\ run = NoRun

\* Parser.add_one(struct) for the next structure of the document
ParserAddOne ==
    /\ perr = NoExc
    /\ pi <= Len(input)
    /\ LET r == add_one(input[pi])
       IN IF r.exc = NoExc
          THEN /\ structs' = Append(structs, Struct(input[pi].name, r.fields))
               /\ pi' = pi + 1
               /\ perr' = perr
          ELSE /\ perr' = r.exc
               /\ UNCHANGED <<structs, pi>>
    /\ UNCHANGED <<input, gi, defs, gerr, run>>

\* Generator.add_one(struct) for the next structure of the Parser
GeneratorAddOne ==
    /\ perr = NoExc
    /\ pi > Len(input)
    /\ gerr = NoExc
    /\ gi <= Len(structs)
    /\ LET g == GenStruct(structs[gi], defs)
       IN IF g.exc = NoExc
          THEN /\ defs' = Append(defs, [name |-> g.name, defn |-> g.defn,
                                        code |-> g.code, total |-> g.total])
               /\ gi' = gi + 1
               /\ gerr' = gerr
          ELSE /\ gerr' = g.exc
               /\ UNCHANGED <<defs, gi>>
    /\ UNCHANGED <<input, pi, structs, perr, run>>

\* the call of an emitted Parse<Name> on a byte stream (test.py's main stub
\* makes one call)
Decode ==
    /\ run = NoRun
    /\ gerr = NoExc
    /\ gi > Len(structs)
    /\ pi > Len(input)
    /\ \E k \in 1..Len(defs) : \E stream \in Streams :
         /\ Builds(defs[k])
         /\ run' = [def |-> k, stream |-> stream, res |-> RunParse(defs[k], stream)]
    /\ UNCHANGED <<input, pi, structs, perr, gi, defs, gerr>>

Next == ParserAddOne \/ GeneratorAddOne \/ Decode

Spec == Init /\ [][Next]_vars

(***************************************************************************)
(* Properties.                                                             *)
(***************************************************************************)
Range(q) == {q[i] : i \in DOMAIN q}

\* the structure dictionary Parser.add_one raised on
Failing == input[pi]

\* the Field the failing add_one call built last, and whether the failure is
\* that of its storage type
FailedField == MakeField(Failing.fields[add_one(Failing).at], "little").field
FailedOnType == ~validate_integral_type(CheckedType(FailedField))

\* C1: when Parser.add_one stops at a field whose effective storage type is
\* not a valid integral kind, the exception is a schema error (an Exception
\* raised by the validator) whose message names the structure and the field,
\* and the structure is not appended to Parser.structs.
C1_InvalidTypeIsSchemaError ==
    (perr # NoExc /\ FailedOnType) =>
        /\ perr.exc = "Exception"
        /\ Failing.name \in Range(perr.strs)
        /\ FailedField.name \in Range(perr.strs)
        /\ Len(structs) = pi - 1

\* a field dictionary that declares a bitfield, its storage type, the sum of
\* its declared widths (a sub-field without 'size' is one bit wide)
IsBitfieldSpec(f) == StartsWith(f.type, S_bitfield \o <<".">>)
StorageOf(f) == SubSeq(f.type, Len(S_bitfield) + 2, Len(f.type))
RECURSIVE DeclaredBits(_)
DeclaredBits(subs) ==
    IF subs = <<>> THEN 0
    ELSE (IF Head(subs).size = NoNum THEN 1 ELSE Head(subs).size)
         + DeclaredBits(Tail(subs))
FixedWidth(t) == validate_integral_type(t) /\ t # S_uintptr
BitfieldFits(f) ==
    /\ FixedWidth(StorageOf(f))
    /\ DeclaredBits(f.bit_fields) <= 8 * SIZES[StorageOf(f)]

\* C2: a bitfield is accepted by the validator if and only if its storage
\* type is a fixed-width integral kind (never uintptr) and the sum of its
\* declared sub-field widths is at most 8 * byte_width(storage type): every
\* bitfield of an accepted structure fits, a bitfield rejected by
\* _check_bitfield does not fit, and a structure made of fitting bitfields
\* is accepted.
C2_BitfieldAcceptedIffFits ==
    /\ \A k \in 1..Len(structs) : \A j \in 1..Len(input[k].fields) :
           IsBitfieldSpec(input[k].fields[j]) => BitfieldFits(input[k].fields[j])
    /\ perr.exc = "Exception" =>
           \E j \in 1..Len(Failing.fields) :
               /\ Failing.fields[j].name = perr.strs[1]
               /\ IsBitfieldSpec(Failing.fields[j])
               /\ ~BitfieldFits(Failing.fields[j])
    /\ perr # NoExc =>
           \E j \in 1..Len(Failing.fields) :
               ~(IsBitfieldSpec(Failing.fields[j]) /\ BitfieldFits(Failing.fields[j]))

\* C2 witness: nine one-bit sub-fields over uint8 were rejected (9 > 8 bits)
C2_Witness ==
    /\ perr.exc = "Exception"
    /\ perr.nums = <<9, 8>>
    /\ Len(Failing.fields[1].bit_fields) = 9
    /\ Failing.fields[1].type = T_bf_uint8

\* the Field of emitted structure k that has the given name
FieldByName(k, name) == CHOOSE f \in Range(structs[k].fields) : f.name = name

IsRead(o) == o.op = "read"
IsSlack(o) == o.op = "slack"
DeclaresTemp(o) == o.op = "slack" \/ (o.op = "read" /\ o.dst = None)

\* C3: walking the fields in ascending offset order with last_end starting
\* at 0, a slack read is emitted before a field if and only if the gap
\* field.offset - last_end is positive, and it consumes exactly the gap; no
\* slack read is emitted for a zero gap or for a field that starts before
\* the previous field's end.
C3_SlackIffPositiveGap ==
    \A k \in 1..Len(defs) :
        LET sf == SortedByOffset(structs[k].fields)
            code == defs[k].code
        IN \A j \in 1..Len(sf) :
            LET last_end == IF j = 1 THEN 0 ELSE EndOf(sf[j-1])
                gap == sf[j].offset - last_end
                slacks == {i \in DOMAIN code : IsSlack(code[i]) /\ code[i].name = sf[j].name}
            IN /\ slacks # {} <=> gap > 0
               /\ \A i \in slacks : code[i].n = gap

\* a field dictionary whose type is "<elementKind>[<count>]", and the count
\* its digits spell
IsArraySpec(f) ==
    /\ ~StartsWith(f.type, S_bitfield)
    /\ \E p \in 1..Len(f.type) : f.type[p] = "["
    /\ f.type[Len(f.type)] = "]"
RECURSIVE Decimal(_)
Decimal(ds) ==
    IF ds = <<>> THEN 0
    ELSE 10 * Decimal(SubSeq(ds, 1, Len(ds) - 1)) + DigitVal(ds[Len(ds)])
BracketAt(t) == CHOOSE p \in 1..Len(t) : t[p] = "["
DeclaredCount(f) == Decimal(SubSeq(f.type, BracketAt(f.type) + 1, Len(f.type) - 1))
ElementKind(f) == SubSeq(f.type, 1, BracketAt(f.type) - 1)

\* C5: for an array field "<elementKind>[<count>]" at offset o, for every
\* positive count (counts of two or more digits included), the parsed
\* array length is count and the end offset the layout loop computes is
\* o + byte_width(elementKind) * count.
C5_ArrayLengthIsCount ==
    \A k \in 1..Len(structs) : \A j \in 1..Len(input[k].fields) :
        LET fs == input[k].fields[j]
            f == structs[k].fields[j]
        IN IsArraySpec(fs) =>
            /\ f.array_num = DeclaredCount(fs)
            /\ (k <= Len(defs) /\ Len(input[k].fields) = 1) =>
                   defs[k].total = fs.offset + SIZES[ElementKind(fs)] * DeclaredCount(fs)

RECURSIVE SumBytes(_, _)
SumBytes(def, n) ==
    IF n = 0 THEN 0 ELSE OpBytes(def, def.code[n]) + SumBytes(def, n - 1)

\* C9: in every emitted Parse<Name>, the reads emitted before a field's read
\* each consume a non-negative number of bytes that add up to the field's
\* declared offset, and the reported total size is the number of bytes the
\* procedure consumes.
C9_ReadsAtDeclaredOffsets ==
    \A k \in 1..Len(defs) :
        LET d == defs[k]
        IN /\ \A i \in DOMAIN d.code :
                IsRead(d.code[i]) =>
                    /\ \A h \in 1..(i-1) : OpBytes(d, d.code[h]) >= 0
                    /\ SumBytes(d, i - 1) = FieldByName(k, d.code[i].name).offset
           /\ \A h \in DOMAIN d.code : OpBytes(d, d.code[h]) >= 0
           /\ d.total = SumBytes(d, Len(d.code))

\* C10: every structure the Parser accepted is emitted by Generator.add_one
\* without failure (uintptr scalars and arrays and field-less structures
\* included): the Generator never raises.
C10_AcceptedIsEmitted == gerr = NoExc

\* C7: when a field's read fails, Parse<Name> stops there (the failing read
\* is the last statement run), returns nil, and returns an error that names
\* the field and the structure and wraps the read error's description.
C7_ReadFailureAborts ==
    run.res.result = "nil" =>
        LET d == defs[run.def]
            r == run.res
            last == r.ran[Len(r.ran)]
        IN /\ IsRead(d.code[last])
           /\ \A i \in Range(r.ran) : i <= last
           /\ r.out = <<>>
           /\ r.err.wraps # ""
           /\ d.code[last].name \in Range(r.err.strs)
           /\ (structs[run.def].name \in Range(r.err.strs) \/ d.name \in Range(r.err.strs))

\* the declared width of a sub-field dictionary, and the widths before it
WidthOf(sub) == IF sub.size = NoNum THEN 1 ELSE sub.size
BitsBefore(subs, i) == DeclaredBits(SubSeq(subs, 1, i - 1))

\* the raw values an extraction is tried on: every value of a one-byte
\* storage type, and for wider types every value whose bytes are among
\* 0x00, 0x01, 0x5A, 0x80, 0xA5, 0xFF
RawBytes == {0, 1, 90, 128, 165, 255}
RECURSIVE RawValues(_)
RawValues(size) ==
    IF size = 1 THEN 0..255
    ELSE {lo + 256 * hi : lo \in RawBytes, hi \in RawValues(size - 1)}

\* the statement of emitted structure k that reads the field called name
ReadIndex(k, name) ==
    CHOOSE i \in DOMAIN defs[k].code :
        IsRead(defs[k].code[i]) /\ defs[k].code[i].name = name

RECURSIVE DeclaredMembers(_)
DeclaredMembers(fields) ==
    IF fields = <<>> THEN <<>>
    ELSE (IF IsBitfieldSpec(Head(fields))
          THEN [i \in 1..Len(Head(fields).bit_fields) |->
                   Title(Head(fields).bit_fields[i].name)]
          ELSE <<Title(Head(fields).name)>>)
         \o DeclaredMembers(Tail(fields))

\* C6: whatever the order of the field declarations, the type declaration
\* lists the members in declaration order (one per sub-field for a
\* bitfield, none for the bitfield itself), the reads of Parse<Name> appear
\* in ascending offset order, one per field, and slack and end offsets are
\* computed against that order: a slack read comes right before the read
\* of its field and spans from the end of the field read before it, and
\* the total size is the end of the field read last.
C6_DeclaredMembersSortedReads ==
    \A k \in 1..Len(defs) :
        LET d == defs[k]
            reads == SelectSeq(d.code, IsRead)
            off(i) == FieldByName(k, reads[i].name).offset
        IN /\ [j \in 1..Len(d.defn) |-> d.defn[j].name] = DeclaredMembers(input[k].fields)
           /\ Len(reads) = Len(input[k].fields)
           /\ {reads[i].name : i \in 1..Len(reads)}
                = {input[k].fields[j].name : j \in 1..Len(input[k].fields)}
           /\ \A i \in 1..(Len(reads) - 1) : off(i) <= off(i + 1)
           /\ \A i \in DOMAIN d.code :
                IsSlack(d.code[i]) =>
                    LET prev == {h \in 1..(i - 1) : IsRead(d.code[h])}
                        last == CHOOSE h \in prev : \A g \in prev : g <= h
                    IN /\ i < Len(d.code) /\ IsRead(d.code[i + 1])
                       /\ d.code[i + 1].name = d.code[i].name
                       /\ d.code[i].n =
                            FieldByName(k, d.code[i].name).offset
                            - (IF prev = {} THEN 0
                               ELSE EndOf(FieldByName(k, d.code[last].name)))
           /\ d.total = IF Len(reads) = 0 THEN 0
                        ELSE EndOf(FieldByName(k, reads[Len(reads)].name))

\* C6 witness: a structure whose first declared field lies after its second
\* one, emitted with a slack read between the two
C6_Witness ==
    \E k \in 1..Len(defs) :
        /\ Len(input[k].fields) = 2
        /\ input[k].fields[1].offset > input[k].fields[2].offset
        /\ \E i \in DOMAIN defs[k].code :
              IsSlack(defs[k].code[i]) /\ defs[k].code[i].n > 0
              /\ defs[k].code[i].name = input[k].fields[1].name

\* the temporaries a Parse<Name> body declares, in emission order
TempIds(code) ==
    LET t == SelectSeq(code, DeclaresTemp) IN [i \in 1..Len(t) |-> t[i].tmp]

\* C8: after any sequence of Generator.add_one calls, the temporaries of
\* each emitted structure (slack reads and bitfield raw values alike) are
\* temp0, temp1, ... in emission order, none used twice, the counter
\* starting at 0 for every structure; what is emitted for a structure is
\* what a fresh Generator emits for it.
C8_TempsRestartPerStruct ==
    \A k \in 1..Len(defs) :
        /\ TempIds(defs[k].code) = [i \in 1..Len(TempIds(defs[k].code)) |-> i - 1]
        /\ LET g == GenStruct(structs[k], <<>>)
           IN defs[k] = [name |-> g.name, defn |-> g.defn, code |-> g.code,
                         total |-> g.total]

\* C8 witness: two structures emitted one after the other, the first with a
\* temporary and the second with two (a slack read and a bitfield)
C8_Witness ==
    /\ Len(defs) >= 2
    /\ Len(TempIds(defs[1].code)) >= 1
    /\ Len(TempIds(defs[2].code)) = 2
    /\ \E i \in DOMAIN defs[2].code :
          IsRead(defs[2].code[i]) /\ defs[2].code[i].dst = None /\ defs[2].code[i].tmp = 1

====
